---- MODULE Spec2Model ----
(***************************************************************************)
(* Helmholtz resonance calculator (helmotz_freq.py): the hole layout       *)
(* resolver calculate_holes_from_spacing, the evaluator calculate_metrics  *)
(* and the two submit handlers (perforated panel, direct neck) that call   *)
(* it once or in a sweep and keep their results in st.session_state.       *)
(*                                                                         *)
(* Numbers.  The program computes in binary64.  The model computes in      *)
(* fixed point: a real input x (a form field, a sweep value) is the        *)
(* integer 10*x ("tenths"); a hole count is a plain integer.  Derived      *)
(* quantities carry the unit written at their definition; areas are kept   *)
(* as multiples of pi/4 so that the ratios the program forms are exact,    *)
(* and pi is 355/113 where it does not cancel.  A quotient or root that    *)
(* the grid cannot represent is rounded away from zero, so a nonzero real  *)
(* never becomes zero (as in binary64 over these ranges) and every sign    *)
(* test of the program is decided exactly.                                 *)
(***************************************************************************)
EXTENDS Integers, Sequences, FiniteSets, TLC

VARIABLES session_state, ui, run, call, holes

vars == <<session_state, ui, run, call, holes>>

\* Python's None (a record, so that it can be compared with a dict).
None == [None |-> TRUE]

(***************************************************************************)
(* Arithmetic helpers                                                      *)
(***************************************************************************)
\* int(a / b) for b > 0: Python's int() truncates toward zero.
TruncDiv(a, b) == IF a >= 0 THEN a \div b ELSE -((-a) \div b)

\* a / b for b > 0 on the fixed-point grid, rounded away from zero.
DivAway(a, b) == IF a >= 0 THEN (a + b - 1) \div b ELSE -(((-a) + b - 1) \div b)

\* The least m with m*m >= v, for 0 <= v <= 46340^2: first the block of 215
\* values that holds it, then the value within the block.
LeastRoot(v) ==
    LET block == IF v > 46225 * 46225 THEN 216
                 ELSE CHOOSE c \in 0..215 :
                        /\ (215 * c) * (215 * c) >= v
                        /\ c > 0 => (215 * (c - 1)) * (215 * (c - 1)) < v
        first == IF block = 0 THEN 0 ELSE 215 * (block - 1)
        last  == IF block = 216 THEN 46340 ELSE 215 * block
    IN  CHOOSE m \in first..last :
            /\ m * m >= v
            /\ m > first => (m - 1) * (m - 1) < v

\* math.sqrt(n) for n >= 0 on the grid: the least m with m*m >= n (0 for
\* n <= 0, which no caller passes).  n is evaluated once.
SqrtUp(n) == CHOOSE r \in {IF v <= 0 THEN 0 ELSE LeastRoot(v) : v \in {n}} : TRUE

(***************************************************************************)
(* Hole layout resolver: calculate_holes_from_spacing (lines 12-18).       *)
(* D_mm and spacing_mm are positive and in the same unit.  The positions   *)
(* are held doubled ( 2*start + 2*i*spacing ), which keeps the halves of   *)
(* the centred lattice integral; hypot(x, y) <= D/2 is then                *)
(* x2*x2 + y2*y2 <= D*D.                                                   *)
(***************************************************************************)
\* A plausible slip: the number of points per axis rounded up.
grid_points_ceil(D_mm, spacing_mm) == (D_mm + spacing_mm - 1) \div spacing_mm

\* A plausible slip: at least one point per axis (a floor of 1).
grid_points_floor1(D_mm, spacing_mm) ==
    IF D_mm \div spacing_mm < 1 THEN 1 ELSE D_mm \div spacing_mm

grid_points(D_mm, spacing_mm) == D_mm \div spacing_mm

positions2(D_mm, spacing_mm) ==
    LET n == grid_points(D_mm, spacing_mm)
    IN  [i \in 1..n |-> -((n - 1) * spacing_mm) + 2 * (i - 1) * spacing_mm]

calculate_holes_from_spacing(D_mm, spacing_mm) ==
    LET pos == positions2(D_mm, spacing_mm)
        n   == Len(pos)
    IN  Cardinality({p \in (1..n) \X (1..n) :
                        pos[p[1]] * pos[p[1]] + pos[p[2]] * pos[p[2]] <= D_mm * D_mm})

\* Largest diameter and spacing (in grid units) the resolver is called with.
MaxD == 20
MaxSpacing == 22

CallHoles ==
    /\ \E D_mm \in 1..MaxD, spacing_mm \in 1..MaxSpacing :
          holes' = [D_mm |-> D_mm, spacing_mm |-> spacing_mm,
                    ret |-> calculate_holes_from_spacing(D_mm, spacing_mm)]
    /\ UNCHANGED <<session_state, ui, run, call>>

InitIdle ==
    /\ session_state = <<>>
    /\ ui = <<>>
    /\ run = None
    /\ call = None
    /\ holes = None

SpecHoles == InitIdle /\ [][CallHoles]_vars

(***************************************************************************)
(* Evaluator: calculate_metrics (lines 20-105).                            *)
(* inputs is a Python dict: a function from field names to values.  Units  *)
(* of the fields: temp (0.1 C), D, t, L, d, spacing, Leff (0.1 mm),         *)
(* V (0.1 L), density (0.1 /cm2), OA (0.1 %), k (0.1), N (a count),         *)
(* A (pi/4 * 1e-8 m2, the area of a circle of diameter 0.1 mm).            *)
(***************************************************************************)
Has(inputs, key) == key \in DOMAIN inputs

\* dict.get(key, default)
Get(inputs, key, default) == IF key \in DOMAIN inputs THEN inputs[key] ELSE default

\* Exceptions raised inside the try block, with str(e).
KeyError(key) == [exc |-> "KeyError", str |-> "'" \o key \o "'"]
ValueError(msg) == [exc |-> "ValueError", str |-> msg]
ZeroDivisionError == [exc |-> "ZeroDivisionError", str |-> "float division by zero"]

IsExc(r) == "exc" \in DOMAIN r

\* 273.15 + temp, in 0.01 K.
kelvin(inputs) == 27315 + 10 * inputs["temp"]

\* c = 20.05 * math.sqrt(273.15 + temp), in cm/s.
speed_of_sound(inputs) == DivAway(2005 * SqrtUp(100 * kelvin(inputs)), 100)

\* material_area = pi * (D/2)**2 if D > 0 else 0.0, in pi/4 * (0.1 mm)^2.
material_area(inputs) == IF inputs["D"] > 0 THEN inputs["D"] * inputs["D"] ELSE 0

\* Cavity volume in pi/4 mm3: material_area * L, or V litres / 1000
\* (0.1 L = 1e5 mm3 = 127324 * pi/4 mm3).
volume(inputs, volume_mode) ==
    IF volume_mode = "Standard"
    THEN DivAway(material_area(inputs) * inputs["L"], 1000)
    ELSE inputs["V"] * 127324

\* hole_area = pi * (d/2)**2, in pi/4 * (0.1 mm)^2.
hole_area(inputs) == inputs["d"] * inputs["d"]

\* N = int(density * (material_area * 10000)): holes/cm2 times the area in cm2.
density_count(inputs) ==
    TruncDiv(inputs["density"] * material_area(inputs) * 355, 45200000)

\* N = int(max(0.0, OA/100 * material_area) / hole_area), hole_area # 0.
oa_count(inputs) ==
    LET open == inputs["OA"] * material_area(inputs)
    IN  TruncDiv(IF open > 0 THEN open ELSE 0, 1000 * hole_area(inputs))

\* density = 1/spacing_cm**2 ; N = int(density * area_cm2) ; N = max(N, 1).
spacing_count(inputs) ==
    LET N == TruncDiv(material_area(inputs) * 355,
                      452 * inputs["spacing"] * inputs["spacing"])
    IN  IF N > 1 THEN N ELSE 1

\* A plausible slip: the OA% branch falling back on the N field when it is given.
hole_count_oa_reads_N(inputs, calc_mode) ==
    IF calc_mode = "Number" THEN
        IF Has(inputs, "N") THEN [N |-> inputs["N"]] ELSE KeyError("N")
    ELSE IF calc_mode = "Density" THEN
        IF Has(inputs, "density") THEN [N |-> density_count(inputs)]
        ELSE KeyError("density")
    ELSE IF calc_mode = "OA%" THEN
        IF Has(inputs, "N") THEN [N |-> inputs["N"]]
        ELSE IF ~Has(inputs, "OA") THEN KeyError("OA")
        ELSE IF hole_area(inputs) = 0 THEN ZeroDivisionError
        ELSE [N |-> oa_count(inputs)]
    ELSE IF calc_mode = "Spacing" THEN
        IF ~Has(inputs, "spacing") THEN KeyError("spacing")
        ELSE IF inputs["spacing"] = 0 THEN ZeroDivisionError
        ELSE [N |-> spacing_count(inputs)]
    ELSE [N |-> Get(inputs, "N", 0)]

\* Lines 48-61: the hole count of the active sub-mode, or the exception raised.
hole_count(inputs, calc_mode) ==
    IF calc_mode = "Number" THEN
        IF Has(inputs, "N") THEN [N |-> inputs["N"]] ELSE KeyError("N")
    ELSE IF calc_mode = "Density" THEN
        IF Has(inputs, "density") THEN [N |-> density_count(inputs)]
        ELSE KeyError("density")
    ELSE IF calc_mode = "OA%" THEN
        IF ~Has(inputs, "OA") THEN KeyError("OA")
        ELSE IF hole_area(inputs) = 0 THEN ZeroDivisionError
        ELSE [N |-> oa_count(inputs)]
    ELSE IF calc_mode = "Spacing" THEN
        IF ~Has(inputs, "spacing") THEN KeyError("spacing")
        ELSE IF inputs["spacing"] = 0 THEN ZeroDivisionError
        ELSE [N |-> spacing_count(inputs)]
    ELSE [N |-> Get(inputs, "N", 0)]

\* Lines 43-69: N, d (0.1 mm), A (pi/4 * (0.1 mm)^2) and Leff (0.005 mm), or
\* the exception raised.  Leff = t + 1.7 * d / 2.
opening(inputs, hole_mode, calc_mode) ==
    IF hole_mode = "Standard" THEN
        IF ~Has(inputs, "d") THEN KeyError("d")
        ELSE LET n == hole_count(inputs, calc_mode)
             IN  IF IsExc(n) THEN n
                 ELSE [N |-> n.N, d |-> inputs["d"],
                       A |-> n.N * hole_area(inputs),
                       Leff |-> 20 * inputs["t"] + 17 * inputs["d"]]
    ELSE IF ~Has(inputs, "A") THEN KeyError("A")
    ELSE IF ~Has(inputs, "Leff") THEN KeyError("Leff")
    ELSE [N |-> 0, d |-> 0, A |-> inputs["A"], Leff |-> 20 * inputs["Leff"]]

\* A plausible slip: A tested with < where the code has <=.
invalid_geometry_strict_A(A, V, Leff) == A < 0 \/ V <= 0 \/ Leff <= 0

\* Line 71: A <= 0 or V <= 0 or Leff <= 0.
invalid_geometry(A, V, Leff) == A <= 0 \/ V <= 0 \/ Leff <= 0

\* math.sqrt(A / (V * Leff)) in 0.01/m, for A, V, Leff > 0.  In the units above
\* A / (V * Leff) = 2e6 * A / (V * Leff) m^-2; the root is taken factor by
\* factor ( sqrt(2e6) = 1414.2 ) to stay within the grid's range.
root_ratio(A, V, Leff) ==
    DivAway(DivAway(14142 * SqrtUp(A * 10000), SqrtUp(V * 100)) * 100,
            SqrtUp(Leff * 10000))

\* Line 74: f0 = k * (c / (2*pi)) * sqrt(A / (V * Leff)), in Hz.
resonance(k, c, A, V, Leff) ==
    DivAway(DivAway(k * DivAway(c * 113, 710), 10) * root_ratio(A, V, Leff), 10000)

\* Lines 77-89: OA% (0.1 %), density (0.1 /cm2) and spacing (0.1 mm).
derived(inputs, hole_mode, calc_mode, o) ==
    LET ma == material_area(inputs)
        by_area == IF ma > 0 THEN DivAway(o.A * 1000, ma) ELSE 0
    IN  IF hole_mode = "Standard" THEN
            [OA |-> IF calc_mode = "Spacing"
                    THEN DivAway(DivAway(3550 * o.d * o.d, 452) * 100,
                                 inputs["spacing"] * inputs["spacing"])
                    ELSE by_area,
             density |-> IF ma > 0
                         THEN DivAway(DivAway(o.N * 452000, 355) * 100, ma)
                         ELSE 0,
             spacing |-> IF o.N # 0 /\ ma > 0
                         THEN SqrtUp(DivAway(ma * 355, 452 * o.N))
                         ELSE 0]
        ELSE [OA |-> by_area, density |-> 0, spacing |-> 0]

\* The try block (lines 23-100): the dict returned, or the exception raised.
\* In the dict V and Leff keep the units of the computation (the program's
\* * 1000.0 only changes the unit).
try_block(inputs) ==
    LET hole_mode   == Get(inputs, "hole_mode", "Standard")
        volume_mode == Get(inputs, "volume_mode", "Standard")
        calc_mode   == Get(inputs, "mode", "Number")
    IN  IF ~Has(inputs, "temp") THEN KeyError("temp")
        ELSE IF kelvin(inputs) < 0 THEN ValueError("math domain error")
        ELSE IF ~Has(inputs, "D") THEN KeyError("D")
        ELSE IF ~Has(inputs, "t") THEN KeyError("t")
        ELSE IF volume_mode = "Standard" /\ ~Has(inputs, "L") THEN KeyError("L")
        ELSE IF volume_mode # "Standard" /\ ~Has(inputs, "V") THEN KeyError("V")
        ELSE
        LET c == speed_of_sound(inputs)
            V == volume(inputs, volume_mode)
            o == opening(inputs, hole_mode, calc_mode)
        IN  IF IsExc(o) THEN o
            ELSE IF invalid_geometry(o.A, V, o.Leff)
                 THEN ValueError("Invalid parameters combination")
            ELSE IF ~Has(inputs, "k") THEN KeyError("k")
            ELSE
            LET m == derived(inputs, hole_mode, calc_mode, o)
            IN  ("OA%" :> m.OA) @@
                [f0 |-> resonance(inputs["k"], c, o.A, V, o.Leff),
                 density |-> m.density, spacing |-> m.spacing,
                 N |-> o.N, V |-> V, A |-> o.A, Leff |-> o.Leff]

\* A plausible slip: a handler that catches ValueError only.
except_ValueError(exc) == exc = "ValueError"

\* Line 102: except Exception catches every exception the try block raises.
except_Exception(exc) == exc \in {"KeyError", "ValueError", "ZeroDivisionError"}

\* Line 104: st.error("Calculation error: " + str(e)), the message shown.
on_error(e) == <<[by |-> "calculate_metrics", widget |-> "st.error",
                  text |-> "Calculation error: " \o e.str]>>

\* calculate_metrics(inputs): what it returns (ret), what it shows on the page
\* (shown) and the exception that leaves it (raised; None when none does).
calculate_metrics(inputs) ==
    LET r == try_block(inputs)
    IN  IF ~IsExc(r) THEN [ret |-> r, shown |-> <<>>, raised |-> None]
        ELSE IF except_Exception(r.exc)
             THEN [ret |-> None, shown |-> on_error(r), raised |-> None]
        ELSE [ret |-> None, shown |-> <<>>, raised |-> r]

\* Python truth of a returned value: None is false, the 8-key dict is true.
Truthy(metrics) == metrics # None /\ DOMAIN metrics # {}

(***************************************************************************)
(* The evaluator on its own: Init draws one parameter dict, Evaluate calls *)
(* calculate_metrics on it.  The dicts are the well-formed ones of every   *)
(* mode combination, with values on both sides of each test of the code,   *)
(* and those dicts with one key removed.                                   *)
(***************************************************************************)
Pending == [Pending |-> TRUE]

Drop(inputs, key) == [f \in DOMAIN inputs \ {key} |-> inputs[f]]

Set(inputs, key, value) ==
    [f \in DOMAIN inputs \cup {key} |-> IF f = key THEN value ELSE inputs[f]]

CommonParts ==
    {[temp |-> T, D |-> D, t |-> t, k |-> k] :
        T \in {-2740, 200}, D \in {0, 100}, t \in {-40, 10}, k \in {0, 10}}

NominalCommon == [temp |-> 200, D |-> 100, t |-> 10, k |-> 10]

VolumeParts ==
    {[volume_mode |-> "Standard", L |-> L] : L \in {0, 100}} \cup
    {[volume_mode |-> "Direct Input", V |-> V] : V \in {0, 10}}

CountParts ==
    {[mode |-> "Number", N |-> N] : N \in {-1, 0, 4}} \cup
    {[mode |-> "Density", density |-> x] : x \in {1, 100}} \cup
    {[mode |-> "OA%", OA |-> x] : x \in {-10, 50, 1000}} \cup
    {[mode |-> "Spacing", spacing |-> x] : x \in {0, 30, 200}} \cup
    {[mode |-> "Other"], [mode |-> "Other", N |-> 4]}

HoleParts ==
    {[hole_mode |-> "Standard", d |-> d] @@ n : d \in {0, 10, 20}, n \in CountParts} \cup
    {[hole_mode |-> "Direct Input", A |-> A, Leff |-> Leff] :
        A \in {0, 100}, Leff \in {0, 50}}

EvalInputs ==
    {c @@ v @@ h : c \in CommonParts, v \in VolumeParts, h \in HoleParts} \cup
    {Drop(NominalCommon @@ v @@ h, key) :
        v \in VolumeParts, h \in HoleParts,
        key \in {"temp", "D", "t", "k", "L", "V", "d", "N", "density", "OA",
                 "spacing", "A", "Leff", "mode", "hole_mode", "volume_mode"}}

InitEval ==
    /\ session_state = <<>>
    /\ ui = <<>>
    /\ run = None
    /\ holes = None
    /\ call \in {[inputs |-> i, out |-> Pending] : i \in EvalInputs}

Evaluate ==
    /\ call # None
    /\ call.out = Pending
    /\ LET out == calculate_metrics(call.inputs)
       IN  /\ call' = [call EXCEPT !.out = out]
           /\ ui' = out.shown
    /\ UNCHANGED <<session_state, run, holes>>

SpecEval == InitEval /\ [][Evaluate]_vars

Returned == call # None /\ call.out # Pending

ResultKeys == {"f0", "OA%", "density", "spacing", "N", "V", "A", "Leff"}

(***************************************************************************)
(* The application: the two forms and their submit handlers.               *)
(* session_state is st.session_state (a dict); ui holds the messages shown *)
(* by the current script run; run records the locals of the last submit    *)
(* handler that ran (they are gone when the script run ends).              *)
(***************************************************************************)
\* Lines 163-168 and 318-323: steps has minimum 10; Min and Max are free.
Steps == 10

\* np.linspace(min, max, num): num evenly spaced values, both ends included.
linspace(min, max, num) ==
    [i \in 1..num |-> min + DivAway((i - 1) * (max - min), num - 1)]

\* The sweep ranges submitted: -2.0 .. 2.5 in steps of 0.5.
SweepRanges == {linspace(-20, 25, Steps)}

\* Lines 120-147: the dicts the panel form builds, within the widgets' limits.
PanelForms ==
    {[temp |-> 200, D |-> 100, t |-> 10, k |-> 10, volume_mode |-> "Standard",
      L |-> 100, hole_mode |-> "Standard", d |-> 10, mode |-> "Number", N |-> 4],
     [temp |-> 200, D |-> 100, t |-> 10, k |-> 10, volume_mode |-> "Direct Input",
      V |-> 10, hole_mode |-> "Standard", d |-> 10, mode |-> "Spacing",
      spacing |-> 30],
     [temp |-> 200, D |-> 100, t |-> 10, k |-> 10, volume_mode |-> "Standard",
      L |-> 100, hole_mode |-> "Standard", d |-> 10, mode |-> "Density",
      density |-> 1]}

\* Lines 151-156: the parameters the panel form offers to vary.
vary_params_panel(inputs_panel) ==
    {"Temperature", "Panel thickness", "Panel diameter", "Correction factor"}
    \cup (IF inputs_panel["volume_mode"] = "Standard" THEN {"Air gap"} ELSE {"Volume"})
    \cup {"Hole diameter", "Number of holes", "Hole density", "OA%", "Hole spacing"}

\* A plausible slip: the swept hole count taken without int().
panel_current_raw_N(base_inputs, vary_param, val) ==
    IF vary_param = "Temperature" THEN Set(base_inputs, "temp", val)
    ELSE IF vary_param = "Panel thickness" THEN Set(base_inputs, "t", val)
    ELSE IF vary_param = "Panel diameter" THEN Set(base_inputs, "D", val)
    ELSE IF vary_param = "Air gap" THEN Set(base_inputs, "L", val)
    ELSE IF vary_param = "Volume" THEN Set(base_inputs, "V", val)
    ELSE IF vary_param = "Hole diameter" THEN Set(base_inputs, "d", val)
    ELSE IF vary_param = "Hole density"
         THEN Set(Set(base_inputs, "density", val), "mode", "Density")
    ELSE IF vary_param = "Number of holes"
         THEN Set(Set(base_inputs, "N", val), "mode", "Number")
    ELSE IF vary_param = "OA%" THEN Set(Set(base_inputs, "OA", val), "mode", "OA%")
    ELSE IF vary_param = "Hole spacing"
         THEN Set(Set(base_inputs, "spacing", val), "mode", "Spacing")
    ELSE IF vary_param = "Correction factor" THEN Set(base_inputs, "k", val)
    ELSE base_inputs

\* Lines 187-214: current = base_inputs.copy() with the varied field mapped.
\* int(val) of a value in tenths is TruncDiv(val, 10).
panel_current(base_inputs, vary_param, val) ==
    IF vary_param = "Temperature" THEN Set(base_inputs, "temp", val)
    ELSE IF vary_param = "Panel thickness" THEN Set(base_inputs, "t", val)
    ELSE IF vary_param = "Panel diameter" THEN Set(base_inputs, "D", val)
    ELSE IF vary_param = "Air gap" THEN Set(base_inputs, "L", val)
    ELSE IF vary_param = "Volume" THEN Set(base_inputs, "V", val)
    ELSE IF vary_param = "Hole diameter" THEN Set(base_inputs, "d", val)
    ELSE IF vary_param = "Hole density"
         THEN Set(Set(base_inputs, "density", val), "mode", "Density")
    ELSE IF vary_param = "Number of holes"
         THEN Set(Set(base_inputs, "N", TruncDiv(val, 10)), "mode", "Number")
    ELSE IF vary_param = "OA%" THEN Set(Set(base_inputs, "OA", val), "mode", "OA%")
    ELSE IF vary_param = "Hole spacing"
         THEN Set(Set(base_inputs, "spacing", val), "mode", "Spacing")
    ELSE IF vary_param = "Correction factor" THEN Set(base_inputs, "k", val)
    ELSE base_inputs

\* Lines 304-308: the values of the neck form, within the widgets' limits.
NeckForms ==
    {[temp_neck |-> 200, V_neck |-> 10, d_neck |-> 300, L_neck |-> 500, k_neck |-> 10]}

\* Line 312.
vary_params_neck ==
    {"Temperature", "Volume", "Neck diameter", "Neck length", "Correction factor"}

\* Lines 329-340: A_neck = pi * ((d_neck/1000)/2)**2 is d_neck * d_neck in the
\* unit of A; D and t are the dummies 100.0 mm and 1.0 mm.
inputs_neck(form) ==
    [temp |-> form.temp_neck, D |-> 1000, t |-> 10, k |-> form.k_neck,
     volume_mode |-> "Direct Input", V |-> form.V_neck,
     hole_mode |-> "Direct Input", A |-> form.d_neck * form.d_neck,
     Leff |-> form.L_neck]

\* Lines 353-364: current = inputs_neck.copy() with the varied field mapped.
neck_current(base_inputs, vary_param, val) ==
    IF vary_param = "Temperature" THEN Set(base_inputs, "temp", val)
    ELSE IF vary_param = "Volume" THEN Set(base_inputs, "V", val)
    ELSE IF vary_param = "Neck diameter" THEN Set(base_inputs, "A", val * val)
    ELSE IF vary_param = "Neck length" THEN Set(base_inputs, "Leff", val)
    ELSE IF vary_param = "Correction factor" THEN Set(base_inputs, "k", val)
    ELSE base_inputs

\* The parameter dict evaluated for val in the sweep of a flow.
sweep_current(flow, base_inputs, vary_param, val) ==
    IF flow = "panel" THEN panel_current(base_inputs, vary_param, val)
    ELSE neck_current(base_inputs, vary_param, val)

\* Lines 218 and 368: {'x': val, 'f0': metrics['f0'], **metrics}.
series_entry(val, metrics) == ("x" :> val) @@ metrics

\* What a handler's evaluations leave behind: the results list, the
\* evaluations made, the messages they showed and the exception that left the
\* handler (None when none did).
Loop(results, evaluated, shown, raised) ==
    [results |-> results, evaluated |-> evaluated, shown |-> shown, raised |-> raised]

\* A plausible slip: the loop left at the first failed evaluation.
RECURSIVE sweep_loop_break(_, _, _, _, _, _, _, _)
sweep_loop_break(flow, base_inputs, vary_param, param_range, i, results, evaluated, shown) ==
    IF i > Len(param_range) THEN Loop(results, evaluated, shown, None)
    ELSE
    LET val     == param_range[i]
        current == sweep_current(flow, base_inputs, vary_param, val)
        out     == calculate_metrics(current)
        seen    == Append(evaluated, [val |-> val, current |-> current, out |-> out])
    IN  IF out.raised # None THEN Loop(results, seen, shown, out.raised)
        ELSE IF ~Truthy(out.ret) THEN Loop(results, seen, shown \o out.shown, None)
        ELSE sweep_loop_break(flow, base_inputs, vary_param, param_range, i + 1,
                              Append(results, series_entry(val, out.ret)),
                              seen, shown \o out.shown)

\* Lines 186-219 and 352-369: the sweep loop from index i on, with the results
\* list, the evaluations made and the messages shown so far.
RECURSIVE sweep_loop(_, _, _, _, _, _, _, _)
sweep_loop(flow, base_inputs, vary_param, param_range, i, results, evaluated, shown) ==
    IF i > Len(param_range) THEN Loop(results, evaluated, shown, None)
    ELSE
    LET val     == param_range[i]
        current == sweep_current(flow, base_inputs, vary_param, val)
        out     == calculate_metrics(current)
        seen    == Append(evaluated, [val |-> val, current |-> current, out |-> out])
    IN  IF out.raised # None THEN Loop(results, seen, shown, out.raised)
        ELSE sweep_loop(flow, base_inputs, vary_param, param_range, i + 1,
                        IF Truthy(out.ret)
                        THEN Append(results, series_entry(val, out.ret))
                        ELSE results,
                        seen, shown \o out.shown)

\* A plausible slip: the submit handler reporting the failed points itself.
handler_messages_reporting(loop) ==
    loop.shown \o
    (IF Len(loop.results) < Len(loop.evaluated)
     THEN <<[by |-> "submit handler", widget |-> "st.warning",
             text |-> "Some points could not be evaluated"]>>
     ELSE <<>>)

\* Lines 173-225 and 327-375: the handlers show nothing of their own about a
\* failure; the page carries what calculate_metrics showed.
handler_messages(loop) == loop.shown

\* session_state.pop(key, None)
Pop(state, key) == [f \in DOMAIN state \ {key} |-> state[f]]

\* A plausible slip: the single calculation dropping the swept-parameter name
\* where the code drops the analysis series.
store_single_pop_vary_param(state, flow, base_inputs, out, extra) ==
    IF ~Truthy(out.ret) THEN state
    ELSE Pop(extra @@
             ((flow \o "_last_metrics") :> out.ret) @@
             ((flow \o "_last_inputs") :> base_inputs) @@ state,
             "vary_param_" \o flow)

\* Lines 177-183 / 342-348: a single calculation of a flow.
store_single(state, flow, base_inputs, out, extra) ==
    IF ~Truthy(out.ret) THEN state
    ELSE Pop(extra @@
             ((flow \o "_last_metrics") :> out.ret) @@
             ((flow \o "_last_inputs") :> base_inputs) @@ state,
             "analysis_df_" \o flow)

\* A plausible slip: the sweep stored without the test `if results:`.
store_sweep_unconditional(state, flow, base_inputs, vary_param, results) ==
    (("analysis_df_" \o flow) :> results) @@
    (("vary_param_" \o flow) :> vary_param) @@
    (("base_inputs_" \o flow) :> base_inputs) @@ state

\* Lines 221-225 / 371-375: the end of a sweep of a flow.
store_sweep(state, flow, base_inputs, vary_param, results) ==
    IF results = <<>> THEN state
    ELSE (("analysis_df_" \o flow) :> results) @@
         (("vary_param_" \o flow) :> vary_param) @@
         (("base_inputs_" \o flow) :> base_inputs) @@ state

\* The submissions the forms can make: a flow, the dict built from the form,
\* and for a sweep the parameter varied and the range.
PanelSubmissions ==
    {[flow |-> "panel", base_inputs |-> b, extra |-> <<>>] : b \in PanelForms}

NeckSubmissions ==
    {[flow |-> "neck", base_inputs |-> inputs_neck(form),
      extra |-> [neck_dims |-> [d |-> form.d_neck, L |-> form.L_neck]]] :
        form \in NeckForms}

PanelSweeps ==
    UNION {{[flow |-> "panel", base_inputs |-> b, vary_param |-> v, param_range |-> r] :
                v \in vary_params_panel(b), r \in SweepRanges} : b \in PanelForms}

NeckSweeps ==
    {[flow |-> "neck", base_inputs |-> inputs_neck(form), vary_param |-> v,
      param_range |-> r] :
        form \in NeckForms, v \in vary_params_neck, r \in SweepRanges}

\* calculate_metrics and the sweep loop are pure: what each submission
\* computes is tabulated once, as pairs <<submission, outcome>>, and the
\* handlers below look it up.
single_outcome ==
    {<<s, CHOOSE loop \in {Loop(<<>>, <<[current |-> s.base_inputs, out |-> out]>>,
                                out.shown, out.raised) :
                               out \in {calculate_metrics(s.base_inputs)}} : TRUE>> :
        s \in PanelSubmissions \cup NeckSubmissions}

sweep_outcome ==
    {<<s, sweep_loop(s.flow, s.base_inputs, s.vary_param, s.param_range, 1,
                     <<>>, <<>>, <<>>)>> :
        s \in PanelSweeps \cup NeckSweeps}

outcome_of(table, s) == (CHOOSE p \in table : p[1] = s)[2]

\* A single calculation: lines 173-183 (panel), 327-348 (neck).
Calculate(s) ==
    \E loop \in {outcome_of(single_outcome, s)} :
        /\ run' = [flow |-> s.flow, vary_param |-> "None",
                   base_inputs |-> s.base_inputs, param_range |-> <<>>, loop |-> loop]
        /\ ui' = handler_messages(loop)
        /\ session_state' = IF loop.raised # None THEN session_state
                            ELSE store_single(session_state, s.flow, s.base_inputs,
                                              loop.evaluated[1].out, s.extra)
        /\ UNCHANGED <<call, holes>>

\* A sweep: lines 173-176 and 184-225 (panel), 327-340 and 349-375 (neck).
Sweep(s) ==
    \E loop \in {outcome_of(sweep_outcome, s)} :
        /\ run' = [flow |-> s.flow, vary_param |-> s.vary_param,
                   base_inputs |-> s.base_inputs, param_range |-> s.param_range,
                   loop |-> loop]
        /\ ui' = handler_messages(loop)
        /\ session_state' = IF loop.raised # None THEN session_state
                            ELSE store_sweep(session_state, s.flow, s.base_inputs,
                                             s.vary_param, loop.results)
        /\ UNCHANGED <<call, holes>>

PanelCalculate == \E s \in PanelSubmissions : Calculate(s)

PanelSweep == \E s \in PanelSweeps : Sweep(s)

NeckCalculate == \E s \in NeckSubmissions : Calculate(s)

NeckSweep == \E s \in NeckSweeps : Sweep(s)

Init == InitIdle

Next == PanelCalculate \/ PanelSweep \/ NeckCalculate \/ NeckSweep

Spec == Init /\ [][Next]_vars

(***************************************************************************)
(* Claims                                                                  *)
(***************************************************************************)
\* The modes calculate_metrics resolves for a dict (lines 24-26).
hole_mode_of(inputs) == Get(inputs, "hole_mode", "Standard")
volume_mode_of(inputs) == Get(inputs, "volume_mode", "Standard")
calc_mode_of(inputs) == Get(inputs, "mode", "Number")

InvalidMessage ==
    [by |-> "calculate_metrics", widget |-> "st.error",
     text |-> "Calculation error: Invalid parameters combination"]

\* C1: calculate_metrics returns a result only when the resolved A, V and Leff
\* are each strictly positive; when one of them is zero or negative it returns
\* None (so no result, with f0 = 0 or otherwise, comes back); in particular
\* hole_mode Standard, mode Number, N = 0 returns None.
C1_ResultOnlyIfPositive ==
    Returned =>
        LET inputs == call.inputs
            ret    == call.out.ret
        IN  /\ Truthy(ret) =>
                LET o == opening(inputs, hole_mode_of(inputs), calc_mode_of(inputs))
                    V == volume(inputs, volume_mode_of(inputs))
                IN  /\ o.A > 0 /\ V > 0 /\ o.Leff > 0
                    /\ ret.A = o.A /\ ret.V = V /\ ret.Leff = o.Leff
            /\ ( /\ hole_mode_of(inputs) = "Standard"
                 /\ calc_mode_of(inputs) = "Number"
                 /\ Has(inputs, "N") /\ inputs["N"] = 0 ) => ret = None

\* A call in Number mode with N = 0 and every other field in order: the open
\* area resolves to 0 and the call reports the invalid combination.
C1_Witness ==
    /\ Returned
    /\ hole_mode_of(call.inputs) = "Standard" /\ calc_mode_of(call.inputs) = "Number"
    /\ Has(call.inputs, "N") /\ call.inputs["N"] = 0
    /\ Has(call.inputs, "d") /\ call.inputs["d"] > 0
    /\ call.out.ret = None
    /\ call.out.shown = <<InvalidMessage>>

\* The evaluations of the last sweep that returned a result, in order, as the
\* entries {'x': val, **metrics}.
RECURSIVE Successes(_)
Successes(evaluated) ==
    IF evaluated = <<>> THEN <<>>
    ELSE LET e == Head(evaluated)
         IN  (IF Truthy(e.out.ret) THEN <<("x" :> e.val) @@ e.out.ret>> ELSE <<>>)
             \o Successes(Tail(evaluated))

IsSweep == run # None /\ run.vary_param # "None"

\* C2: a sweep evaluates every value of the range, in order, whether or not
\* earlier values failed; its series is the order-preserving subsequence of the
\* values whose evaluation returned a result, one entry (x, result) each; with
\* no failure the series is as long as the range.
C2_SeriesIsSuccessfulSubsequence ==
    IsSweep =>
        LET evaluated == run.loop.evaluated
            results   == run.loop.results
        IN  /\ Len(evaluated) = Len(run.param_range)
            /\ \A i \in 1..Len(evaluated) : evaluated[i].val = run.param_range[i]
            /\ results = Successes(evaluated)
            /\ (\A i \in 1..Len(evaluated) : Truthy(evaluated[i].out.ret))
                   => Len(results) = Len(run.param_range)

\* A sweep in which a value fails and a later value succeeds: the series is
\* then a proper, non-empty part of the range.
C2_Witness ==
    /\ IsSweep
    /\ \E i, j \in 1..Len(run.loop.evaluated) :
          /\ i < j
          /\ ~Truthy(run.loop.evaluated[i].out.ret)
          /\ Truthy(run.loop.evaluated[j].out.ret)
    /\ Len(run.loop.results) > 0
    /\ Len(run.loop.results) < Len(run.param_range)

\* C3: no exception leaves calculate_metrics: every call returns, and what it
\* returns is None or the result dict of 8 keys.
C3_NoExceptionEscapes ==
    Returned =>
        /\ call.out.raised = None
        /\ call.out.ret = None \/ DOMAIN call.out.ret = ResultKeys

\* Calls that fail inside the try block with each kind of exception: a missing
\* field, a temperature below absolute zero, a division by zero.
C3_Witness ==
    /\ Returned
    /\ call.out.ret = None
    /\ call.out.raised = None
    /\ \/ ~Has(call.inputs, "temp")
       \/ Has(call.inputs, "temp") /\ kelvin(call.inputs) < 0
       \/ call.out.shown = on_error(ZeroDivisionError)

\* C4 (as stated): calculate_metrics never shows a message on the page, in a
\* successful or in a failed call.
C4_EngineShowsNothing ==
    run # None =>
        \A i \in 1..Len(run.loop.evaluated) : run.loop.evaluated[i].out.shown = <<>>

\* The evaluations of a handler run that returned None.
Failures(evaluated) == {i \in 1..Len(evaluated) : ~Truthy(evaluated[i].out.ret)}

\* C4 (amended): a successful call shows nothing; a failed call returns None
\* and shows exactly one message, st.error("Calculation error: ..."), itself;
\* the submit handlers add no message of their own, so the page carries one
\* message of calculate_metrics per failed evaluation and nothing else.
C4_EngineReportsItsOwnFailure ==
    run # None =>
        LET evaluated == run.loop.evaluated
        IN  /\ \A i \in 1..Len(evaluated) :
                  LET out == evaluated[i].out
                  IN  IF Truthy(out.ret) THEN out.shown = <<>>
                      ELSE /\ out.ret = None
                           /\ Len(out.shown) = 1
                           /\ out.shown[1].by = "calculate_metrics"
                           /\ out.shown[1].widget = "st.error"
            /\ Len(ui) = Cardinality(Failures(evaluated))
            /\ \A j \in 1..Len(ui) : ui[j].by = "calculate_metrics"

\* A sweep with failed and successful evaluations: the page carries the
\* messages calculate_metrics showed for the failed ones.
C4_Witness ==
    /\ IsSweep
    /\ Failures(run.loop.evaluated) # {}
    /\ Len(run.loop.results) > 0
    /\ Len(ui) = Cardinality(Failures(run.loop.evaluated))
    /\ ui[1].text = "Calculation error: Invalid parameters combination"

\* A dict of hole_mode Standard whose fields are all present and positive
\* (the temperature above absolute zero), in the sub-mode given.
PositiveInputs(inputs, calc_mode) ==
    /\ hole_mode_of(inputs) = "Standard" /\ calc_mode_of(inputs) = calc_mode
    /\ Has(inputs, "temp") /\ kelvin(inputs) > 0
    /\ \A f \in {"D", "t", "k", "d"} : Has(inputs, f) /\ inputs[f] > 0
    /\ IF volume_mode_of(inputs) = "Standard"
       THEN Has(inputs, "L") /\ inputs["L"] > 0
       ELSE Has(inputs, "V") /\ inputs["V"] > 0
    /\ \A f \in {"density", "spacing"} :
          calc_mode = (IF f = "density" THEN "Density" ELSE "Spacing")
              => Has(inputs, f) /\ inputs[f] > 0

\* C5 (as stated): in modes Spacing and Density, with positive inputs, the
\* resolved N is at least 1 and the evaluation does not fail.
C5_IndirectCountAtLeastOne ==
    (Returned /\ \E m \in {"Spacing", "Density"} : PositiveInputs(call.inputs, m))
        => Truthy(call.out.ret) /\ call.out.ret.N >= 1

\* C6 (as stated): calculate_holes_from_spacing returns exactly 1 whenever
\* spacing >= D, both for spacing = D and for spacing > D.
C6_OneWhenSpacingAtLeastD ==
    (holes # None /\ holes.spacing_mm >= holes.D_mm) => holes.ret = 1

\* C6 (amended): calculate_holes_from_spacing returns 1 when spacing = D (one
\* central point) and 0 when spacing > D (no lattice point at all).
C6_OneAtD_ZeroBeyond ==
    holes # None =>
        /\ holes.spacing_mm = holes.D_mm => holes.ret = 1
        /\ holes.spacing_mm > holes.D_mm => holes.ret = 0

C6_Witness == holes # None /\ holes.spacing_mm > holes.D_mm /\ holes.ret = 0

SubModeFields == {"N", "density", "OA", "spacing"}

active_field(calc_mode) ==
    IF calc_mode = "Number" THEN "N"
    ELSE IF calc_mode = "Density" THEN "density"
    ELSE IF calc_mode = "OA%" THEN "OA"
    ELSE "spacing"

\* Values given to a field of an inactive sub-mode.
InactiveValues == {0, 7}

\* The dicts equal to inputs on every field but those of the three inactive
\* sub-modes, each of which is absent or holds one of InactiveValues.
Variants(inputs, calc_mode) ==
    LET inactive == SubModeFields \ {active_field(calc_mode)}
        kept     == [f \in DOMAIN inputs \ inactive |-> inputs[f]]
    IN  {g @@ kept : g \in UNION {[P -> InactiveValues] : P \in SUBSET inactive}}

HasSubMode(inputs) ==
    /\ hole_mode_of(inputs) = "Standard"
    /\ calc_mode_of(inputs) \in {"Number", "Density", "OA%", "Spacing"}

\* C8: with hole_mode Standard and a mode among Number, Density, OA%, Spacing,
\* the outcome of calculate_metrics (the failure and its message, or the
\* result dict) is the same for every dict that differs only in the fields of
\* the three inactive sub-modes, be they present, absent or different.
C8_InactiveSubModesIgnored ==
    (Returned /\ HasSubMode(call.inputs)) =>
        \A v \in Variants(call.inputs, calc_mode_of(call.inputs)) :
            calculate_metrics(v) = call.out

\* A successful OA% call whose outcome is that of the same dict carrying
\* values for N, density and spacing as well.
C8_Witness ==
    /\ Returned
    /\ HasSubMode(call.inputs) /\ calc_mode_of(call.inputs) = "OA%"
    /\ Truthy(call.out.ret)
    /\ ~Has(call.inputs, "N")
    /\ calculate_metrics([N |-> 7, density |-> 7, spacing |-> 0] @@ call.inputs)
           = call.out

\* C9 (as stated): every result calculate_metrics returns has f0 > 0, and so
\* has every entry of a sweep series.
C9_SeriesFrequenciesPositive ==
    run # None =>
        /\ \A i \in 1..Len(run.loop.evaluated) :
              Truthy(run.loop.evaluated[i].out.ret)
                  => run.loop.evaluated[i].out.ret.f0 > 0
        /\ \A j \in 1..Len(run.loop.results) : run.loop.results[j].f0 > 0

\* The field a swept parameter names (lines 189-214, 354-364); the neck
\* diameter is carried by the area field A.
swept_field(vary_param) ==
    IF vary_param = "Temperature" THEN "temp"
    ELSE IF vary_param = "Panel thickness" THEN "t"
    ELSE IF vary_param = "Panel diameter" THEN "D"
    ELSE IF vary_param = "Air gap" THEN "L"
    ELSE IF vary_param = "Volume" THEN "V"
    ELSE IF vary_param = "Hole diameter" THEN "d"
    ELSE IF vary_param = "Hole density" THEN "density"
    ELSE IF vary_param = "Number of holes" THEN "N"
    ELSE IF vary_param = "OA%" THEN "OA"
    ELSE IF vary_param = "Hole spacing" THEN "spacing"
    ELSE IF vary_param = "Neck diameter" THEN "A"
    ELSE IF vary_param = "Neck length" THEN "Leff"
    ELSE "k"

\* The fields a sweep of vary_param forces besides the swept one.
forced_fields(vary_param) ==
    IF vary_param = "Hole density" THEN [mode |-> "Density"]
    ELSE IF vary_param = "Number of holes" THEN [mode |-> "Number"]
    ELSE IF vary_param = "OA%" THEN [mode |-> "OA%"]
    ELSE IF vary_param = "Hole spacing" THEN [mode |-> "Spacing"]
    ELSE <<>>

\* current is base_inputs with the swept field and the forced fields
\* overridden, and nothing else added, removed or changed.
OverridesOnly(current, base_inputs, vary_param) ==
    LET forced  == forced_fields(vary_param)
        touched == {swept_field(vary_param)} \cup DOMAIN forced
    IN  /\ DOMAIN current = DOMAIN base_inputs \cup touched
        /\ \A f \in DOMAIN forced : current[f] = forced[f]
        /\ \A f \in DOMAIN current \ touched : current[f] = base_inputs[f]

\* The dicts the forms submit as base_inputs.
FormInputs == PanelForms \cup {inputs_neck(form) : form \in NeckForms}

\* The base dict of a sweep is the one the form built, also where it is stored.
BaseUntouched ==
    /\ run.base_inputs \in FormInputs
    /\ run.loop.results # <<>>
           => session_state["base_inputs_" \o run.flow] = run.base_inputs

\* C10 (as stated): each dict a sweep evaluates is the base dict with the
\* named field set to the value recorded as x (and the mode forced for a
\* sub-mode field), every other field as in the base dict, which the sweep
\* leaves unmodified.  (N is a count and val is in tenths; A is in pi/4 * 1e-8
\* m2 and val in 0.1 mm, hence the factors.)
C10_FieldSetToSweptValue ==
    IsSweep =>
        /\ BaseUntouched
        /\ run.loop.results = Successes(run.loop.evaluated)
        /\ \A i \in 1..Len(run.loop.evaluated) :
              LET e     == run.loop.evaluated[i]
                  field == swept_field(run.vary_param)
              IN  /\ OverridesOnly(e.current, run.base_inputs, run.vary_param)
                  /\ IF field = "N" THEN 10 * e.current[field] = e.val
                     ELSE IF field = "A" THEN 355 * e.current[field] = 4520000 * e.val
                     ELSE e.current[field] = e.val

\* C10 (amended): as stated, except that a sweep of "Number of holes" sets N
\* to int(val), and a sweep of "Neck diameter" sets A to the area
\* pi * ((val/1000)/2)**2 of a neck of that diameter; x is val in both.
C10_FieldSetFromSweptValue ==
    IsSweep =>
        /\ BaseUntouched
        /\ run.loop.results = Successes(run.loop.evaluated)
        /\ \A i \in 1..Len(run.loop.evaluated) :
              LET e     == run.loop.evaluated[i]
                  field == swept_field(run.vary_param)
              IN  /\ OverridesOnly(e.current, run.base_inputs, run.vary_param)
                  /\ IF field = "N" THEN e.current[field] = TruncDiv(e.val, 10)
                     ELSE IF field = "A" THEN e.current[field] = e.val * e.val
                     ELSE e.current[field] = e.val

\* A sweep of "Number of holes" over a form in another sub-mode: the value 1.5
\* is evaluated with N = 1 and mode Number, and recorded with x = 1.5.
C10_Witness ==
    /\ IsSweep
    /\ run.vary_param = "Number of holes"
    /\ run.base_inputs["mode"] # "Number"
    /\ \E i \in 1..Len(run.loop.evaluated) :
          /\ run.loop.evaluated[i].val = 15
          /\ run.loop.evaluated[i].current["N"] = 1
          /\ run.loop.evaluated[i].current["mode"] = "Number"
          /\ Truthy(run.loop.evaluated[i].out.ret)
    /\ \E j \in 1..Len(run.loop.results) :
          run.loop.results[j].x = 15 /\ run.loop.results[j].N = 1

\* The two user flows, each with its own keys in st.session_state.
Flows == {"panel", "neck"}

Stored(key) == key \in DOMAIN session_state

\* The last handler run was a single calculation of flow that returned a result.
SingleSucceeded(flow) ==
    /\ run # None /\ run.flow = flow /\ run.vary_param = "None"
    /\ Truthy(run.loop.evaluated[1].out.ret)

\* C11: after any sequence of panel and neck submissions, a stored analysis
\* series of a flow comes with the stored swept-parameter name of that flow
\* (the analysis display reads both), and right after a successful single
\* calculation of a flow that flow's analysis series is absent.
C11_AnalysisHasVaryParam ==
    \A flow \in Flows :
        /\ Stored("analysis_df_" \o flow) => Stored("vary_param_" \o flow)
        /\ SingleSucceeded(flow) => ~Stored("analysis_df_" \o flow)

\* A successful single panel calculation made after a panel sweep had stored
\* its series: the series is gone, the swept-parameter name remains, and the
\* series of an earlier neck sweep is still there with its name.
C11_Witness ==
    /\ SingleSucceeded("panel")
    /\ Stored("panel_last_metrics")
    /\ Stored("vary_param_panel") /\ ~Stored("analysis_df_panel")
    /\ Stored("analysis_df_neck") /\ Stored("vary_param_neck")

\* The keys of st.session_state a flow's submit handler writes.
FlowKeys(flow) ==
    {flow \o "_last_metrics", flow \o "_last_inputs", "analysis_df_" \o flow,
     "vary_param_" \o flow, "base_inputs_" \o flow}
    \cup (IF flow = "neck" THEN {"neck_dims"} ELSE {})

\* The part of a session state held under the given keys.
Restrict(state, keys) == [key \in DOMAIN state \cap keys |-> state[key]]

\* A handler run in which no evaluation returned a result.
NoSuccess(r) ==
    \A i \in 1..Len(r.loop.evaluated) : ~Truthy(r.loop.evaluated[i].out.ret)

\* C12: a submission none of whose evaluations succeeds (a failed single
\* calculation, a sweep in which every point fails) leaves st.session_state
\* as it was, and a submission of one flow leaves everything stored for the
\* other flow as it was.
C12_FailedSubmissionKeepsState ==
    [][ LET r == run'
        IN  r # None =>
                /\ NoSuccess(r) => session_state' = session_state
                /\ \A other \in Flows \ {r.flow} :
                      Restrict(session_state', FlowKeys(other))
                          = Restrict(session_state, FlowKeys(other)) ]_vars

\* A panel sweep in which every point failed, made when results of earlier
\* panel and neck submissions were stored: they are all still there.
C12_Witness ==
    /\ IsSweep /\ run.flow = "panel"
    /\ NoSuccess(run) /\ Len(run.loop.evaluated) = Len(run.param_range)
    /\ Stored("panel_last_metrics") /\ Stored("analysis_df_panel")
    /\ Stored("vary_param_panel") /\ Stored("base_inputs_panel")
    /\ Stored("neck_last_metrics") /\ Stored("analysis_df_neck")
====
